---- MODULE Spec2Model ----
(***************************************************************************)
(* bootlogd: capture of the console output on a pty, relay of the raw      *)
(* bytes to the real consoles, and a filtered, timestamped log file.       *)
(* The model follows src/src/bootlogd.c: main (startup, the select loop,   *)
(* shutdown), write_err, open_nb and writelog.                             *)
(***************************************************************************)
EXTENDS Integers, Sequences, FiniteSets, TLC

\* ------------------------------------------------------------------ bounds
\* sizeof(ringbuf), scaled down from 1 MiB
RingSize == 2
\* MAX_CONSOLES, scaled down from 16
MaxConsoles == 2
\* bytes the pty delivers beyond one full arena
MaxExtra == 1
\* longest input handed to the log writer in the filter specification
MaxLen == 4

\* --------------------------------------------------------- program constants
didnl == 1
SIGTERM == 15
ESC == 27
CR == 13
LF == 10

EIO == "EIO"
EOTHER == "EOTHER"

MaxBytes == RingSize + MaxExtra
endptr == RingSize
NumFds == MaxConsoles + 6
Fds == 0..(NumFds - 1)

\* the console output the kernel sends down the pty: its k-th byte
PtyPattern == <<ESC, CR, LF, 65>>
PtyByte(k) == PtyPattern[((k - 1) % Len(PtyPattern)) + 1]
\* what the byte in front of the arena, ringbuf[-1], can hold
PreBytes == {0, LF}

VARIABLES
    pc,            \* position of main
    exitcode,      \* return value of main, -1 while running
    fdt,           \* the process's descriptor table: what each number refers to
    cons,          \* cons[i].fd
    num_consoles, consoles_left, considx,
    ptm, pts,
    ringbuf, inptr, outptr,
    n, m, p,
    got_signal,
    fp,            \* descriptor number behind the FILE, -1 for NULL
    createlogfile,
    first_run, inside_esc,   \* the statics of writelog
    logdata,       \* bytes handed to fp by fprintf/fwrite
    ptyRead,       \* history: every byte read from the pty
    consOut,       \* history: per console not counted out, the bytes its handles accepted
    hupAt,         \* history: offset in the span of the last hang-up of this turn, or -1
    newOut,        \* history: bytes of the span the handle opened at hupAt accepted
    signalled,     \* history: a real signal was delivered
    trail,         \* history: steps of the current iteration already taken
    syncalot, rotate,   \* the options -s and -r
    flushed,       \* history: how many bytes of logdata have reached the log file
    synced,        \* history: how many of them fdatasync has forced to the disk
    openlog,       \* history: what the log-open step of this iteration did
    handed,        \* history: the raw bytes given to writelog, in order
    fin, fpos      \* filter specification: the input and the bytes consumed

vars == <<pc, exitcode, fdt, cons, num_consoles, consoles_left, considx, ptm, pts,
          ringbuf, inptr, outptr, n, m, p, got_signal, fp, createlogfile, first_run, inside_esc, logdata, ptyRead, consOut,
          hupAt, newOut, signalled, trail, fin, fpos,
          syncalot, rotate, flushed, synced, openlog, handed>>

\* ------------------------------------------------------------ descriptors
\* open(2) returns the lowest-numbered descriptor that is not open
LowestFree(t) == CHOOSE f \in Fds : t[f] = "free" /\ \A g \in Fds : g < f => t[g] # "free"

\* close(2): EBADF, and no effect, on a number that is not open
Close(t, fd) == IF fd \in Fds THEN [t EXCEPT ![fd] = "free"] ELSE t

\* open_nb: the new descriptor, or -1
open_nb(t, ok) ==
    IF ok THEN [fd |-> LowestFree(t), fdt |-> [t EXCEPT ![LowestFree(t)] = "cons"]]
    ELSE [fd |-> -1, fdt |-> t]

\* write_err without its close(realfd): the hung-up descriptor stays open
write_err_NoClose(t, ptsfd, realfd, e, reopen) ==
    IF e # EIO
    THEN [fd |-> -1, fdt |-> Close(t, ptsfd)]
    ELSE LET r == open_nb(t, reopen)
         IN  IF r.fd < 0 THEN [fd |-> -1, fdt |-> Close(r.fdt, ptsfd)]
             ELSE r

\* write_err returning the descriptor it has just closed when the reopen fails
write_err_Stale(t, ptsfd, realfd, e, reopen) ==
    IF e # EIO
    THEN [fd |-> -1, fdt |-> Close(t, ptsfd)]
    ELSE LET r == open_nb(Close(t, realfd), reopen)
         IN  IF r.fd < 0 THEN [fd |-> realfd, fdt |-> Close(r.fdt, ptsfd)]
             ELSE r

\* write_err(pts, realfd, realcons, e): the descriptor it returns and the table
\* it leaves; reopen says whether open_nb succeeds
write_err(t, ptsfd, realfd, e, reopen) ==
    IF e # EIO
    THEN [fd |-> -1, fdt |-> Close(t, ptsfd)]
    ELSE LET r == open_nb(Close(t, realfd), reopen)
         IN  IF r.fd < 0 THEN [fd |-> -1, fdt |-> Close(r.fdt, ptsfd)]
             ELSE r

\* ------------------------------------------------------------- the arena
RingSpan(buf, start, len) == [k \in 1..len |-> buf[start + k - 1]]

\* todo, as main computes it before calling writelog
Todo(in, out) == IF in >= out THEN in - out ELSE endptr - out

\* "drag output pointer along if we cross it", then the two wraps
AdvanceOut(in, out, cnt) ==
    LET in1 == in + cnt
        out1 == IF in1 - cnt < out /\ in1 > out THEN in1 ELSE out
    IN  IF out1 >= endptr THEN 0 ELSE out1

\* inptr += n without the wrap at the arena end
AdvanceIn_NoWrap(in, cnt) == in + cnt

\* inptr += n; if (inptr >= endptr) inptr = ringbuf;
AdvanceIn(in, cnt) == IF in + cnt >= endptr THEN 0 ELSE in + cnt

\* ------------------------------------------------------------- writelog
\* fprintf(fp, "%.24s: ", ctime(&t)): 24 characters of date, ':' and ' '
TSCHAR == 256
Stamp == [k \in 1..26 |-> IF k <= 24 THEN TSCHAR ELSE IF k = 25 THEN 58 ELSE 32]

\* the filter with no case for '\r' in the normal state
FilterByte_KeepCR(esc, b) ==
    IF esc = 1
    THEN IF b = 91 THEN [ignore |-> 1, inside_esc |-> 2]
         ELSE [ignore |-> IF b >= 64 /\ b <= 95 THEN 1 ELSE 0, inside_esc |-> 0]
    ELSE IF esc = 2
    THEN IF (b >= 48 /\ b <= 57) \/ b = 59 \/ (b >= 32 /\ b <= 47)
         THEN [ignore |-> 1, inside_esc |-> 2]
         ELSE IF b >= 64 /\ b <= 126
         THEN [ignore |-> 1, inside_esc |-> 0]
         ELSE [ignore |-> 0, inside_esc |-> 2]
    ELSE IF b = ESC THEN [ignore |-> 1, inside_esc |-> 1]
         ELSE [ignore |-> 0, inside_esc |-> 0]

\* the filter taking 64..95, the single-character range, as the final bytes
\* of a multi-character sequence too
FilterByte_ShortFinal(esc, b) ==
    IF esc = 1
    THEN IF b = 91 THEN [ignore |-> 1, inside_esc |-> 2]
         ELSE [ignore |-> IF b >= 64 /\ b <= 95 THEN 1 ELSE 0, inside_esc |-> 0]
    ELSE IF esc = 2
    THEN IF (b >= 48 /\ b <= 57) \/ b = 59 \/ (b >= 32 /\ b <= 47)
         THEN [ignore |-> 1, inside_esc |-> 2]
         ELSE IF b >= 64 /\ b <= 95
         THEN [ignore |-> 1, inside_esc |-> 0]
         ELSE [ignore |-> 0, inside_esc |-> 2]
    ELSE IF b = CR THEN [ignore |-> 1, inside_esc |-> 0]
         ELSE IF b = ESC THEN [ignore |-> 1, inside_esc |-> 1]
         ELSE [ignore |-> 0, inside_esc |-> 0]

\* the filter dropping '\n' along with '\r' in the normal state
FilterByte_DropLF(esc, b) ==
    IF esc = 1
    THEN IF b = 91 THEN [ignore |-> 1, inside_esc |-> 2]
         ELSE [ignore |-> IF b >= 64 /\ b <= 95 THEN 1 ELSE 0, inside_esc |-> 0]
    ELSE IF esc = 2
    THEN IF (b >= 48 /\ b <= 57) \/ b = 59 \/ (b >= 32 /\ b <= 47)
         THEN [ignore |-> 1, inside_esc |-> 2]
         ELSE IF b >= 64 /\ b <= 126
         THEN [ignore |-> 1, inside_esc |-> 0]
         ELSE [ignore |-> 0, inside_esc |-> 2]
    ELSE IF b = CR \/ b = LF THEN [ignore |-> 1, inside_esc |-> 0]
         ELSE IF b = ESC THEN [ignore |-> 1, inside_esc |-> 1]
         ELSE [ignore |-> 0, inside_esc |-> 0]

\* the filter taking 127 (DEL) as a final byte too: case 64 ... 127
FilterByte_Final127(esc, b) ==
    IF esc = 1
    THEN IF b = 91 THEN [ignore |-> 1, inside_esc |-> 2]
         ELSE [ignore |-> IF b >= 64 /\ b <= 95 THEN 1 ELSE 0, inside_esc |-> 0]
    ELSE IF esc = 2
    THEN IF (b >= 48 /\ b <= 57) \/ b = 59 \/ (b >= 32 /\ b <= 47)
         THEN [ignore |-> 1, inside_esc |-> 2]
         ELSE IF b >= 64 /\ b <= 127
         THEN [ignore |-> 1, inside_esc |-> 0]
         ELSE [ignore |-> 0, inside_esc |-> 2]
    ELSE IF b = CR THEN [ignore |-> 1, inside_esc |-> 0]
         ELSE IF b = ESC THEN [ignore |-> 1, inside_esc |-> 1]
         ELSE [ignore |-> 0, inside_esc |-> 0]

\* the escape filter on one byte: whether it is ignored, and the next state
FilterByte(esc, b) ==
    IF esc = 1
    THEN IF b = 91 THEN [ignore |-> 1, inside_esc |-> 2]
         ELSE [ignore |-> IF b >= 64 /\ b <= 95 THEN 1 ELSE 0, inside_esc |-> 0]
    ELSE IF esc = 2
    THEN IF (b >= 48 /\ b <= 57) \/ b = 59 \/ (b >= 32 /\ b <= 47)
         THEN [ignore |-> 1, inside_esc |-> 2]
         ELSE IF b >= 64 /\ b <= 126
         THEN [ignore |-> 1, inside_esc |-> 0]
         ELSE [ignore |-> 0, inside_esc |-> 2]
    ELSE IF b = CR THEN [ignore |-> 1, inside_esc |-> 0]
         ELSE IF b = ESC THEN [ignore |-> 1, inside_esc |-> 1]
         ELSE [ignore |-> 0, inside_esc |-> 0]

\* the date test without first_run
NeedStamp_NoFirst(prev, first) == prev = LF

\* whether the date is prepended in front of a byte: *(ptr-1) == '\n' || first_run
NeedStamp(prev, first) == prev = LF \/ first = 1

\* one turn of the for loop of writelog on span[i], prev being the byte
\* in front of the span
WriteLogByte(prev, span, i, acc) ==
    LET before == IF i = 1 THEN prev ELSE span[i - 1]
        stamp == NeedStamp(before, acc.first_run)
        f == FilterByte(acc.inside_esc, span[i])
    IN  [out |-> acc.out \o (IF stamp THEN Stamp ELSE <<>>)
                         \o (IF f.ignore = 0 THEN <<span[i]>> ELSE <<>>),
         inside_esc |-> f.inside_esc,
         first_run |-> IF stamp THEN 0 ELSE acc.first_run,
         dosync |-> IF stamp THEN 1 ELSE acc.dosync]

RECURSIVE WriteLogLoop(_, _, _, _)
WriteLogLoop(prev, span, i, acc) ==
    IF i > Len(span) THEN acc
    ELSE WriteLogLoop(prev, span, i + 1, WriteLogByte(prev, span, i, acc))

\* writelog(fp, ptr, len) up to its fflush: what it hands to fp and the
\* statics it leaves
writelog(prev, span, esc, first) ==
    WriteLogLoop(prev, span, 1,
                 [out |-> <<>>, inside_esc |-> esc, first_run |-> first, dosync |-> 0])

\* outptr += len without the wrap at the arena end
DrainOut_NoWrap(out, len) == out + len

\* outptr += len, and the wrap, at the end of writelog
DrainOut(out, len) == IF out + len >= endptr THEN 0 ELSE out + len

\* --------------------------------------------------- the log file's life
\* fflush(fp), fclose(fp): the bytes handed to fp reach the file behind the
\* descriptor, when that descriptor still is the log file
Flush(t, f, done, len) == IF f \in Fds /\ t[f] = "log" THEN len ELSE done

\* if (dosync) { fflush(fp); if (syncalot) fdatasync(fileno(fp)); }
SyncLog(t, f, dosync, sync, done, len) ==
    IF dosync = 1 /\ sync THEN Flush(t, f, done, len) ELSE done

\* the log-open step before it is taken, and when fp is already held
NoOpen == [exists |-> FALSE, renamed |-> FALSE, opens |-> 0]

\* fp == NULL && access(logfile, F_OK) == 0: the path was looked up and exists
LogExists(f, acc) == f = -1 /\ acc

\* the rename tried whenever rotate is set, the log already held or not
LogRenamed_Held(f, acc, rot) == acc /\ rot

\* rename(logfile, buf): under fp == NULL, access() == 0 and rotate
LogRenamed(f, acc, rot) == f = -1 /\ acc /\ rot

\* how many times fopen(logfile, "a") is called
LogOpens(f, create, acc, o1) ==
    LET first == f = -1 /\ acc
        null == IF first THEN ~o1 ELSE f = -1
    IN  (IF first THEN 1 ELSE 0) + (IF null /\ create THEN 1 ELSE 0)

\* ------------------------------------------------------------------ Init
Init ==
    /\ pc = "consolenames"
    /\ exitcode = -1
    /\ fdt = [f \in Fds |-> IF f <= 2 THEN "std" ELSE "free"]
    /\ cons = [i \in 0..(MaxConsoles - 1) |-> -1]
    /\ num_consoles = 0
    /\ consoles_left = 0
    /\ considx = 0
    /\ ptm = -1
    /\ pts = -1
    /\ ringbuf = [k \in 0..(RingSize - 1) |-> 0]
    /\ inptr = 0
    /\ outptr = 0
    /\ n = 0
    /\ m = 0
    /\ p = 0
    /\ got_signal = 0
    /\ fp = -1
    /\ createlogfile \in BOOLEAN
    /\ first_run = 1
    /\ inside_esc = 0
    /\ logdata = <<>>
    /\ ptyRead = <<>>
    /\ consOut = [i \in 0..(MaxConsoles - 1) |-> <<>>]
    /\ hupAt = -1
    /\ newOut = <<>>
    /\ signalled = FALSE
    /\ trail = {}
    /\ fin = <<>>
    /\ fpos = 0
    /\ syncalot \in BOOLEAN
    /\ rotate \in BOOLEAN
    /\ flushed = 0
    /\ synced = 0
    /\ openlog = NoOpen
    /\ handed = <<>>

\* a fatal startup condition that returns 0
Fail_Zero == /\ pc' = "done"
             /\ exitcode' = 0

\* return 1;
\* --------------------------------------------------------------- startup
Fail == /\ pc' = "done"
        /\ exitcode' = 1

\* num_consoles = consolenames(cons, MAX_CONSOLES); <= 0 is fatal
ConsoleNames ==
    /\ pc = "consolenames"
    /\ \E k \in -1..MaxConsoles :
         /\ num_consoles' = k
         /\ IF k <= 0
            THEN Fail /\ UNCHANGED <<consoles_left, considx>>
            ELSE /\ consoles_left' = k
                 /\ considx' = 0
                 /\ pc' = "opencons"
                 /\ UNCHANGED exitcode
    /\ UNCHANGED <<fdt, cons, ptm, pts, ringbuf, inptr, outptr, n, m, p, got_signal,
                   fp, createlogfile, first_run, inside_esc, logdata,
                   ptyRead, consOut, hupAt, newOut, signalled, trail, fin, fpos>>
    /\ UNCHANGED <<syncalot, rotate, flushed, synced, openlog, handed>>

\* one turn of the loop that opens the consoles
OpenCons ==
    /\ pc = "opencons"
    /\ considx < num_consoles
    /\ \E ok \in BOOLEAN :
         LET r == open_nb(fdt, ok)
         IN  /\ cons' = [cons EXCEPT ![considx] = r.fd]
             /\ fdt' = r.fdt
             /\ consoles_left' = IF r.fd < 0 THEN consoles_left - 1 ELSE consoles_left
    /\ considx' = considx + 1
    /\ UNCHANGED <<pc, exitcode, num_consoles, ptm, pts, ringbuf, inptr, outptr, n, m, p,
                   got_signal, fp, createlogfile, first_run, inside_esc,
                   logdata, ptyRead, consOut, hupAt, newOut, signalled, trail, fin, fpos>>
    /\ UNCHANGED <<syncalot, rotate, flushed, synced, openlog, handed>>

\* if (!consoles_left) return 1;
OpenConsDone ==
    /\ pc = "opencons"
    /\ considx >= num_consoles
    /\ IF consoles_left = 0 THEN Fail ELSE pc' = "findpty" /\ UNCHANGED exitcode
    /\ UNCHANGED <<fdt, cons, num_consoles, consoles_left, considx, ptm, pts, ringbuf,
                   inptr, outptr, n, m, p, got_signal, fp, createlogfile,
                   first_run, inside_esc, logdata, ptyRead, consOut, hupAt, newOut, signalled,
                   trail, fin, fpos>>
    /\ UNCHANGED <<syncalot, rotate, flushed, synced, openlog, handed>>

\* findpty(&ptm, &pts, buf): the controller, then the companion
FindPty ==
    /\ pc = "findpty"
    /\ \E ok \in BOOLEAN :
         IF ok
         THEN LET a == LowestFree(fdt)
                  t == [fdt EXCEPT ![a] = "ptm"]
                  b == LowestFree(t)
              IN  /\ ptm' = a
                  /\ pts' = b
                  /\ fdt' = [t EXCEPT ![b] = "pts"]
                  /\ pc' = "tioccons"
                  /\ UNCHANGED exitcode
         ELSE Fail /\ UNCHANGED <<ptm, pts, fdt>>
    /\ UNCHANGED <<cons, num_consoles, consoles_left, considx, ringbuf, inptr, outptr,
                   n, m, p, got_signal, fp, createlogfile, first_run,
                   inside_esc, logdata, ptyRead, consOut, hupAt, newOut, signalled, trail,
                   fin, fpos>>
    /\ UNCHANGED <<syncalot, rotate, flushed, synced, openlog, handed>>

\* ioctl(pts, TIOCCONS, NULL) < 0 is fatal
Tioccons ==
    /\ pc = "tioccons"
    /\ \E ok \in BOOLEAN :
         IF ok THEN pc' = "while" /\ UNCHANGED exitcode ELSE Fail
    /\ UNCHANGED <<fdt, cons, num_consoles, consoles_left, considx, ptm, pts, ringbuf,
                   inptr, outptr, n, m, p, got_signal, fp, createlogfile,
                   first_run, inside_esc, logdata, ptyRead, consOut, hupAt, newOut, signalled,
                   trail, fin, fpos>>
    /\ UNCHANGED <<syncalot, rotate, flushed, synced, openlog, handed>>

\* --------------------------------------------------------------- the loop
\* while (!got_signal)
While ==
    /\ pc = "while"
    /\ IF got_signal = 0
       THEN pc' = "select" /\ trail' = {}
       ELSE pc' = "shutdown" /\ UNCHANGED trail
    /\ UNCHANGED <<exitcode, fdt, cons, num_consoles, consoles_left, considx, ptm, pts,
                   ringbuf, inptr, outptr, n, m, p, got_signal, fp, createlogfile, first_run, inside_esc, logdata, ptyRead, consOut,
                   hupAt, newOut, signalled, fin, fpos>>
    /\ UNCHANGED <<syncalot, rotate, flushed, synced, openlog, handed>>

\* select(...) == 1: ready or not (time-out, EINTR)
Select ==
    /\ pc = "select"
    /\ \E ready \in BOOLEAN : pc' = IF ready THEN "read" ELSE "logopen"
    /\ UNCHANGED trail
    /\ UNCHANGED <<exitcode, fdt, cons, num_consoles, consoles_left, considx, ptm, pts,
                   ringbuf, inptr, outptr, n, m, p, got_signal, fp, createlogfile, first_run, inside_esc, logdata, ptyRead, consOut,
                   hupAt, newOut, signalled, fin, fpos>>
    /\ UNCHANGED <<syncalot, rotate, flushed, synced, openlog, handed>>

Min(a, b) == IF a < b THEN a ELSE b

\* n = read(ptm, inptr, endptr - inptr)
Read ==
    /\ pc = "read"
    /\ \E cnt \in -1..Min(endptr - inptr, MaxBytes - Len(ptyRead)) :
         /\ n' = cnt
         /\ IF cnt < 0
            THEN /\ pc' = "logopen"
                 /\ UNCHANGED <<ringbuf, ptyRead, considx>>
            ELSE LET data == [k \in 1..cnt |-> PtyByte(Len(ptyRead) + k)]
                 IN
                   /\ ringbuf' = [k \in 0..(RingSize - 1) |->
                                    IF k >= inptr /\ k < inptr + cnt
                                    THEN data[k - inptr + 1] ELSE ringbuf[k]]
                   /\ ptyRead' = ptyRead \o data
                   /\ considx' = 0
                   /\ pc' = "for"
    /\ UNCHANGED trail
    /\ UNCHANGED <<exitcode, fdt, cons, num_consoles, consoles_left, ptm, pts,
                   inptr, outptr, m, p, got_signal, fp, createlogfile, first_run, inside_esc, logdata, consOut,
                   hupAt, newOut, signalled, fin, fpos>>
    /\ UNCHANGED <<syncalot, rotate, flushed, synced, openlog, handed>>

\* the for loop without its test for a dead console
SkipConsole_Never(fd) == FALSE

\* if (cons[considx].fd < 0) continue;
SkipConsole(fd) == fd < 0

\* for (considx = 0; considx < num_consoles; considx++): the head of a turn
ForConsole ==
    /\ pc = "for"
    /\ IF considx >= num_consoles
       THEN pc' = "advance" /\ UNCHANGED <<considx, m, p>>
       ELSE IF SkipConsole(cons[considx])
       THEN considx' = considx + 1 /\ UNCHANGED <<pc, m, p>>
       ELSE m' = n /\ p' = inptr /\ pc' = "write" /\ UNCHANGED considx
    /\ UNCHANGED <<exitcode, fdt, cons, num_consoles, consoles_left, ptm, pts,
                   ringbuf, inptr, outptr, n, got_signal, fp, createlogfile, first_run, inside_esc, logdata, ptyRead, consOut,
                   hupAt, newOut, signalled, trail, fin, fpos>>
    /\ UNCHANGED <<syncalot, rotate, flushed, synced, openlog, handed>>

\* the write loop without p += i
ConsWrite_NoAdvance(buf, ptr, cnt, i) ==
    [m |-> cnt - i, p |-> ptr, bytes |-> RingSpan(buf, ptr, i)]

\* a write that accepts i of the cnt bytes at ptr: m -= i; p += i;
ConsWrite(buf, ptr, cnt, i) ==
    [m |-> cnt - i, p |-> ptr + i, bytes |-> RingSpan(buf, ptr, i)]

\* i = write(cons[considx].fd, p, m) with i >= 0
WriteOk ==
    /\ pc = "write"
    /\ m > 0
    /\ \E i \in 0..m :
         LET w == ConsWrite(ringbuf, p, m, i)
         IN  /\ m' = w.m
             /\ p' = w.p
             /\ consOut' = [consOut EXCEPT ![considx] = @ \o w.bytes]
             /\ newOut' = IF hupAt >= 0 THEN newOut \o w.bytes ELSE newOut
    /\ UNCHANGED <<pc, exitcode, fdt, cons, num_consoles, consoles_left, considx, ptm, pts,
                   ringbuf, inptr, outptr, n, got_signal, fp, createlogfile, first_run, inside_esc, logdata, ptyRead,
                   hupAt, signalled, trail, fin, fpos>>
    /\ UNCHANGED <<syncalot, rotate, flushed, synced, openlog, handed>>

\* the fake signal tested with < instead of <=
FakeSignal_OffByOne(left, sig) == IF left < 0 THEN 1 ELSE sig

\* if (--consoles_left <= 0) got_signal = 1;
FakeSignal(left, sig) == IF left <= 0 THEN 1 ELSE sig

\* i = write(...) < 0: write_err, then continue on the new descriptor, or
\* count the console out and leave the while
WriteFail ==
    /\ pc = "write"
    /\ m > 0
    /\ \E e \in {EIO, EOTHER}, reopen \in BOOLEAN :
         LET r == write_err(fdt, pts, cons[considx], e, reopen)
         IN  /\ cons' = [cons EXCEPT ![considx] = r.fd]
             /\ fdt' = r.fdt
             /\ IF r.fd >= 0
                THEN /\ hupAt' = n - m
                     /\ newOut' = <<>>
                     /\ UNCHANGED <<pc, considx, consoles_left, got_signal, consOut>>
                ELSE /\ consoles_left' = consoles_left - 1
                     /\ got_signal' = FakeSignal(consoles_left - 1, got_signal)
                     /\ considx' = considx + 1
                     /\ pc' = "for"
                     /\ hupAt' = -1
                     /\ newOut' = <<>>
                     /\ consOut' = [consOut EXCEPT ![considx] = <<>>]
    /\ UNCHANGED <<exitcode, num_consoles, ptm, pts, ringbuf, inptr, outptr, n, m, p,
                   fp, createlogfile, first_run, inside_esc, logdata,
                   ptyRead, signalled, trail, fin, fpos>>
    /\ UNCHANGED <<syncalot, rotate, flushed, synced, openlog, handed>>

\* while (m > 0) is over: the next console
WriteDone ==
    /\ pc = "write"
    /\ m <= 0
    /\ considx' = considx + 1
    /\ pc' = "for"
    /\ hupAt' = -1
    /\ newOut' = <<>>
    /\ UNCHANGED <<exitcode, fdt, cons, num_consoles, consoles_left, ptm, pts,
                   ringbuf, inptr, outptr, n, m, p, got_signal, fp, createlogfile, first_run, inside_esc, logdata, ptyRead, consOut,
                   signalled, trail, fin, fpos>>
    /\ UNCHANGED <<syncalot, rotate, flushed, synced, openlog, handed>>

\* inptr += n, the overrun test and the wraps
Advance ==
    /\ pc = "advance"
    /\ inptr' = AdvanceIn(inptr, n)
    /\ outptr' = AdvanceOut(inptr, outptr, n)
    /\ pc' = "logopen"
    /\ trail' = trail \cup {"advance"}
    /\ UNCHANGED <<exitcode, fdt, cons, num_consoles, consoles_left, considx, ptm, pts,
                   ringbuf, n, m, p, got_signal, fp, createlogfile, first_run, inside_esc, logdata, ptyRead, consOut,
                   hupAt, newOut, signalled, fin, fpos>>
    /\ UNCHANGED <<syncalot, rotate, flushed, synced, openlog, handed>>

\* fopen(logfile, "a"): the FILE's descriptor, or NULL (-1)
fopen_a(t, ok) ==
    IF ok THEN [fd |-> LowestFree(t), fdt |-> [t EXCEPT ![LowestFree(t)] = "log"]]
    ELSE [fd |-> -1, fdt |-> t]

\* "Perhaps we need to open the logfile.": acc is access(logfile, F_OK) == 0,
\* o1 and o2 whether each fopen succeeds. The rename under rotate touches no
\* descriptor.
LogOpenPolicy(t, f, create, acc, o1, o2) ==
    LET r1 == IF f = -1 /\ acc THEN fopen_a(t, o1) ELSE [fd |-> f, fdt |-> t]
    IN  IF r1.fd = -1 /\ create THEN fopen_a(r1.fdt, o2) ELSE r1

LogOpen ==
    /\ pc = "logopen"
    /\ \E acc \in BOOLEAN, o1 \in BOOLEAN, o2 \in BOOLEAN :
         LET r == LogOpenPolicy(fdt, fp, createlogfile, acc, o1, o2)
         IN  /\ fp' = r.fd
             /\ fdt' = r.fdt
             /\ openlog' = [exists |-> LogExists(fp, acc),
                            renamed |-> LogRenamed(fp, acc, rotate),
                            opens |-> LogOpens(fp, createlogfile, acc, o1)]
    /\ pc' = "drain"
    /\ trail' = trail \cup {"logopen"}
    /\ UNCHANGED <<exitcode, cons, num_consoles, consoles_left, considx, ptm, pts,
                   ringbuf, inptr, outptr, n, m, p, got_signal, createlogfile, first_run, inside_esc, logdata, ptyRead, consOut,
                   hupAt, newOut, signalled, fin, fpos>>
    /\ UNCHANGED <<syncalot, rotate, flushed, synced, handed>>

\* todo, and if (fp && todo) writelog(fp, outptr, todo)
Drain ==
    /\ pc = "drain"
    /\ LET todo == Todo(inptr, outptr)
       IN  IF fp # -1 /\ todo # 0
           THEN \E pre \in (IF outptr = 0 THEN PreBytes ELSE {ringbuf[outptr - 1]}) :
                  LET w == writelog(pre, RingSpan(ringbuf, outptr, todo),
                                    inside_esc, first_run)
                  IN  /\ logdata' = logdata \o w.out
                      /\ inside_esc' = w.inside_esc
                      /\ first_run' = w.first_run
                      /\ outptr' = DrainOut(outptr, todo)
                      /\ handed' = handed \o RingSpan(ringbuf, outptr, todo)
                      /\ flushed' = IF w.dosync = 1
                                    THEN Flush(fdt, fp, flushed, Len(logdata \o w.out))
                                    ELSE flushed
                      /\ synced' = SyncLog(fdt, fp, w.dosync, syncalot, synced,
                                           Len(logdata \o w.out))
           ELSE UNCHANGED <<logdata, inside_esc, first_run, outptr, handed, flushed, synced>>
    /\ openlog' = NoOpen
    /\ pc' = "while"
    /\ trail' = trail \cup {"drain"}
    /\ UNCHANGED <<exitcode, fdt, cons, num_consoles, consoles_left, considx, ptm, pts,
                   ringbuf, inptr, n, m, p, got_signal, fp, createlogfile, ptyRead, consOut, hupAt, newOut, signalled, fin, fpos>>
    /\ UNCHANGED <<syncalot, rotate>>

RECURSIVE CloseCons(_, _)
CloseCons(t, i) ==
    IF i >= num_consoles THEN t ELSE CloseCons(Close(t, cons[i]), i + 1)

\* after the loop: the trailing newline, fclose, the closes, return 0
Shutdown ==
    /\ pc = "shutdown"
    /\ logdata' = IF fp # -1 /\ didnl = 0 THEN Append(logdata, LF) ELSE logdata
    /\ flushed' = IF fp # -1 THEN Flush(fdt, fp, flushed, Len(logdata')) ELSE flushed
    /\ fdt' = CloseCons(Close(Close(Close(fdt, fp), pts), ptm), 0)
    /\ exitcode' = 0
    /\ pc' = "done"
    /\ UNCHANGED <<cons, num_consoles, consoles_left, considx, ptm, pts,
                   ringbuf, inptr, outptr, n, m, p, got_signal, fp, createlogfile, first_run, inside_esc, ptyRead, consOut,
                   hupAt, newOut, signalled, trail, fin, fpos>>
    /\ UNCHANGED <<syncalot, rotate, synced, openlog, handed>>

\* a handler that leaves the loop itself instead of only setting the flag
Signal_Abort ==
    /\ pc # "done"
    /\ got_signal # SIGTERM
    /\ got_signal' = SIGTERM
    /\ signalled' = TRUE
    /\ pc' = IF pc \in {"while", "select", "read", "for", "write", "advance", "logopen", "drain"}
             THEN "shutdown" ELSE pc
    /\ UNCHANGED <<exitcode, fdt, cons, num_consoles, consoles_left, considx, ptm, pts,
                   ringbuf, inptr, outptr, n, m, p, fp, createlogfile, first_run, inside_esc, logdata, ptyRead, consOut,
                   hupAt, newOut, trail, fin, fpos>>
    /\ UNCHANGED <<syncalot, rotate, flushed, synced, openlog, handed>>

\* handler(sig): got_signal = sig, at any point of main
Signal ==
    /\ pc # "done"
    /\ got_signal # SIGTERM
    /\ got_signal' = SIGTERM
    /\ signalled' = TRUE
    /\ UNCHANGED <<pc, exitcode, fdt, cons, num_consoles, consoles_left, considx, ptm, pts,
                   ringbuf, inptr, outptr, n, m, p, fp, createlogfile, first_run, inside_esc, logdata, ptyRead, consOut,
                   hupAt, newOut, trail, fin, fpos>>
    /\ UNCHANGED <<syncalot, rotate, flushed, synced, openlog, handed>>

Next ==
    \/ ConsoleNames \/ OpenCons \/ OpenConsDone \/ FindPty \/ Tioccons
    \/ While \/ Select \/ Read \/ ForConsole \/ WriteOk \/ WriteFail \/ WriteDone
    \/ Advance \/ LogOpen \/ Drain \/ Shutdown \/ Signal

Spec == Init /\ [][Next]_vars

TypeOK ==
    /\ inptr \in 0..(RingSize - 1)
    /\ outptr \in 0..(RingSize - 1)
    /\ consoles_left \in 0..MaxConsoles

\* ------------------------------------------------- the log writer alone
\* one byte of each class the filter tells apart, and the bytes of "A\nB"
FilterBytes == {ESC, CR, LF, 91, 48, 59, 65, 66, 109, 63}
Inputs == UNION {[1..k -> FilterBytes] : k \in 0..MaxLen}

\* a fresh process whose captured bytes fin lie in the arena, nothing logged yet
InitF ==
    /\ pc = "filter"
    /\ fin \in Inputs
    /\ fpos = 0
    /\ exitcode = -1
    /\ fdt = [f \in Fds |-> IF f <= 2 THEN "std" ELSE "free"]
    /\ cons = [i \in 0..(MaxConsoles - 1) |-> -1]
    /\ num_consoles = 0
    /\ consoles_left = 0
    /\ considx = 0
    /\ ptm = -1
    /\ pts = -1
    /\ ringbuf = [k \in 0..(RingSize - 1) |-> 0]
    /\ inptr = 0
    /\ outptr = 0
    /\ n = 0
    /\ m = 0
    /\ p = 0
    /\ got_signal = 0
    /\ fp = -1
    /\ createlogfile = FALSE
    /\ first_run = 1
    /\ inside_esc = 0
    /\ logdata = <<>>
    /\ ptyRead = <<>>
    /\ consOut = [i \in 0..(MaxConsoles - 1) |-> <<>>]
    /\ hupAt = -1
    /\ newOut = <<>>
    /\ signalled = FALSE
    /\ trail = {}
    /\ syncalot = FALSE
    /\ rotate = FALSE
    /\ flushed = 0
    /\ synced = 0
    /\ openlog = NoOpen
    /\ handed = <<>>

\* writelog(fp, ptr, len) on the next len bytes of fin; the byte in front of
\* the first call is whatever lies in front of the arena
FilterCall ==
    /\ pc = "filter"
    /\ fpos < Len(fin)
    /\ \E len \in 1..(Len(fin) - fpos), pre \in (IF fpos = 0 THEN PreBytes ELSE {fin[fpos]}) :
         LET w == writelog(pre, SubSeq(fin, fpos + 1, fpos + len), inside_esc, first_run)
         IN  /\ logdata' = logdata \o w.out
             /\ inside_esc' = w.inside_esc
             /\ first_run' = w.first_run
             /\ fpos' = fpos + len
    /\ UNCHANGED <<pc, exitcode, fdt, cons, num_consoles, consoles_left, considx, ptm, pts,
                   ringbuf, inptr, outptr, n, m, p, got_signal, fp, createlogfile,
                   ptyRead, consOut, hupAt, newOut, signalled, trail, fin>>
    /\ UNCHANGED <<syncalot, rotate, flushed, synced, openlog, handed>>

NextF == FilterCall

SpecFilter == InitF /\ [][NextF]_vars

\* fairness: the process keeps running (select times out, no write blocks
\* for ever once it has been issued); -s and -r, which no test of the control
\* flow reads, are left off
InitLive == Init /\ ~syncalot /\ ~rotate

\* every byte value, met in each state of the filter: the statics start at 0,
\* so the byte is led by nothing, by ESC, or by ESC '['
TablePrefixes == {<<>>, <<ESC>>, <<ESC, 91>>}
TableInputs == {pre \o <<b>> : pre \in TablePrefixes, b \in 0..255}

InitT ==
    /\ pc = "filter"
    /\ fin \in TableInputs
    /\ fpos = 0
    /\ exitcode = -1
    /\ fdt = [f \in Fds |-> IF f <= 2 THEN "std" ELSE "free"]
    /\ cons = [i \in 0..(MaxConsoles - 1) |-> -1]
    /\ num_consoles = 0
    /\ consoles_left = 0
    /\ considx = 0
    /\ ptm = -1
    /\ pts = -1
    /\ ringbuf = [k \in 0..(RingSize - 1) |-> 0]
    /\ inptr = 0
    /\ outptr = 0
    /\ n = 0
    /\ m = 0
    /\ p = 0
    /\ got_signal = 0
    /\ fp = -1
    /\ createlogfile = FALSE
    /\ first_run = 1
    /\ inside_esc = 0
    /\ logdata = <<>>
    /\ ptyRead = <<>>
    /\ consOut = [i \in 0..(MaxConsoles - 1) |-> <<>>]
    /\ hupAt = -1
    /\ newOut = <<>>
    /\ signalled = FALSE
    /\ trail = {}
    /\ syncalot = FALSE
    /\ rotate = FALSE
    /\ flushed = 0
    /\ synced = 0
    /\ openlog = NoOpen
    /\ handed = <<>>

SpecTable == InitT /\ [][NextF]_vars

SpecLive == InitLive /\ [][Next]_vars /\ WF_vars(Next)

\* ---------------------------------------------------------------- claims
InLoop == pc \in {"while", "select", "read", "for", "write", "advance", "logopen", "drain"}
Consoles == 0..(num_consoles - 1)
OpenCount(t) == Cardinality({f \in Fds : t[f] = "cons"})

\* every descriptor main still holds for a console is an open console handle
ConsFdValid ==
    \A c \in Consoles : (InLoop /\ cons[c] >= 0) => (cons[c] \in Fds /\ fdt[cons[c]] = "cons")

\* how many of the bytes read so far console c has been offered in full
Delivered(c) ==
    IF pc \in {"for", "write"}
    THEN IF c < considx THEN Len(ptyRead)
         ELSE IF c = considx /\ pc = "write" THEN Len(ptyRead) - m
         ELSE Len(ptyRead) - n
    ELSE Len(ptyRead)

\* C1: a console that has not been counted out has accepted exactly the bytes
\* read from the pty, in order and unfiltered, none twice and none skipped,
\* whatever the sizes of the reads and of the partial writes and whether or
\* not the log file is open.
C1_RawRelay ==
    \A c \in Consoles :
        cons[c] >= 0 => consOut[c] = SubSeq(ptyRead, 1, Delivered(c))

C1_Witness ==
    /\ pc = "while"
    /\ Len(ptyRead) = MaxBytes
    /\ \E c \in Consoles : cons[c] >= 0 /\ consOut[c] = ptyRead
                           /\ \E i, j \in 1..Len(ptyRead) : ptyRead[i] = ESC /\ ptyRead[j] = CR

\* C2: after a hang-up at offset k of the span (EIO, reopen succeeded) the
\* console is live on an open handle, the new handle has been given exactly the
\* bytes of the span from offset k on, the console has seen the span once across
\* its handles; the step itself closes the old handle, keeps the place in the
\* span and leaves the count of live consoles alone.
C2_State ==
    (pc = "write" /\ hupAt >= 0) =>
        /\ cons[considx] >= 0
        /\ fdt[cons[considx]] = "cons"
        /\ newOut = SubSeq(RingSpan(ringbuf, inptr, n), hupAt + 1, n - m)
        /\ consOut[considx] = SubSeq(ptyRead, 1, Len(ptyRead) - m)

C2_Step ==
    (pc = "write" /\ hupAt' = n - m /\ newOut' = <<>> /\ (hupAt # hupAt' \/ newOut # <<>>)) =>
        /\ consoles_left' = consoles_left
        /\ m' = m /\ p' = p /\ pc' = "write" /\ considx' = considx
        /\ OpenCount(fdt') = OpenCount(fdt)

C2_HangupRecovery == [](C2_State) /\ [][C2_Step]_vars

C2_Witness ==
    /\ pc = "write" /\ m = 0 /\ n >= 2
    /\ hupAt >= 1 /\ hupAt < n
    /\ Len(newOut) = n - hupAt

\* C3: a console whose write fails otherwise than by hang-up, or whose reopen
\* fails, is marked dead (fd -1) and the live count drops by one; a dead
\* console is never written to nor reopened afterwards; the consoles after it
\* still get the whole span of the iteration.
C3_Step ==
    /\ (pc = "write" /\ cons'[considx] < 0) =>
          (consoles_left' = consoles_left - 1 /\ pc' = "for" /\ considx' = considx + 1)
    /\ \A c \in Consoles :
          (InLoop /\ cons[c] < 0) => (cons'[c] < 0 /\ consOut'[c] = consOut[c])

C3_State ==
    /\ pc = "write" => cons[considx] >= 0
    /\ pc = "advance" => \A c \in Consoles : cons[c] >= 0 => consOut[c] = ptyRead

C3_PermanentEviction == [](C3_State) /\ [][C3_Step]_vars

C3_Witness ==
    /\ pc = "advance" /\ n >= 2
    /\ Len(ptyRead) = n /\ cons[0] < 0 /\ consOut[0] = <<>> /\ fdt[pts] = "free"
    /\ num_consoles >= 2 /\ cons[1] >= 0 /\ consOut[1] = ptyRead

\* C4: once the last console has been counted out the loop is left and main
\* returns 0, signal or no signal, and the iteration in which the last console
\* died has gone through its cursor update, the log-open step and the drain.
C4_Lost == InLoop /\ consoles_left = 0

C4_Steps ==
    (pc \in {"shutdown", "done"} /\ exitcode # 1 /\ consoles_left = 0) =>
        {"advance", "logopen", "drain"} \subseteq trail

C4_AllConsolesLost ==
    /\ [](C4_Steps)
    /\ [](C4_Lost => got_signal # 0)
    /\ (C4_Lost ~> (pc = "done" /\ exitcode = 0))

C4_Witness ==
    /\ pc = "done" /\ exitcode = 0
    /\ consoles_left = 0 /\ ~signalled
    /\ {"advance", "logopen", "drain"} \subseteq trail

\* what draining to the end, with no further capture, hands to the log writer
Recoverable ==
    IF inptr >= outptr
    THEN RingSpan(ringbuf, outptr, inptr - outptr)
    ELSE RingSpan(ringbuf, outptr, endptr - outptr) \o RingSpan(ringbuf, 0, inptr)

LastBytes(s, k) == SubSeq(s, Len(s) - k + 1, Len(s))

\* C5: with no log handle ever opened, right after the cursor update of a
\* capture that brought the total past the capacity, the read cursor equals the
\* write cursor and draining recovers exactly the most recent RingSize bytes.
C5_DropOldest ==
    (pc = "logopen" /\ "advance" \in trail /\ fp = -1 /\ n > 0 /\ Len(ptyRead) > RingSize) =>
        /\ outptr = inptr
        /\ Recoverable = LastBytes(ptyRead, RingSize)

\* C6: once fopen has succeeded, the descriptor behind the log FILE stays the
\* open log file until main's shutdown code runs.
C6_LogHandleLifetime ==
    (fp # -1 /\ pc # "done") => fdt[fp] = "log"

\* ------------------------------------------------ claims on the log writer
\* the log output with the date prefixes taken out
RECURSIVE Unstamp(_)
Unstamp(out) ==
    IF out = <<>> THEN <<>>
    ELSE IF Head(out) = TSCHAR THEN Unstamp(SubSeq(out, Len(Stamp) + 1, Len(out)))
    ELSE <<Head(out)>> \o Unstamp(Tail(out))

Has(s, b) == \E i \in 1..Len(s) : s[i] = b
IsNotCR(b) == b # CR
RemoveCR(s) == SelectSeq(s, IsNotCR)

\* C7: on input without ESC, cut into calls anywhere, the output so far is the
\* input so far without its CR bytes, and the filter is in state Normal after
\* every call.
C7_EscapeFree ==
    (pc = "filter" /\ ~Has(fin, ESC)) =>
        /\ Unstamp(logdata) = RemoveCR(SubSeq(fin, 1, fpos))
        /\ inside_esc = 0

C7_Witness ==
    /\ pc = "filter" /\ ~Has(fin, ESC) /\ Has(fin, CR) /\ Len(fin) = MaxLen
    /\ fpos > 0 /\ fpos < Len(fin)
    /\ Len(Unstamp(logdata)) < fpos
    /\ Unstamp(logdata) # <<>>

\* a parameter or intermediate byte of a CSI sequence: a digit, ';', 0x20..0x2F
IsParam(b) == (b >= 48 /\ b <= 57) \/ b = 59 \/ (b >= 32 /\ b <= 47)
\* ESC '[' <params> <final>, final in 0x40..0x7E
IsCSI(x) ==
    /\ Len(x) >= 3
    /\ x[1] = ESC /\ x[2] = 91
    /\ x[Len(x)] >= 64 /\ x[Len(x)] <= 126
    /\ \A i \in 3..(Len(x) - 1) : IsParam(x[i])

\* C8: a CSI sequence entered in state Normal and cut into calls anywhere puts
\* none of its bytes in the output, and the filter is in state Normal again
\* exactly when the final byte has been consumed, at no cut before it.
C8_CsiRemoved ==
    (pc = "filter" /\ IsCSI(fin)) =>
        /\ Unstamp(logdata) = <<>>
        /\ (inside_esc = 0) <=> (fpos = 0 \/ fpos = Len(fin))
        /\ (fpos = 1) => inside_esc = 1
        /\ (fpos > 1 /\ fpos < Len(fin)) => inside_esc = 2

C8_Witness ==
    /\ pc = "filter" /\ IsCSI(fin) /\ Len(fin) = MaxLen
    /\ fin[Len(fin)] > 95
    /\ fpos = Len(fin) /\ inside_esc = 0 /\ Unstamp(logdata) = <<>>

\* the escape filter applied once more, from state Normal
FilterAgain(y) == Unstamp(writelog(0, y, 0, 0).out)

\* C9 as stated: whenever the filtered output holds no ESC, filtering it
\* again returns it unchanged.
C9_Idempotent ==
    (pc = "filter" /\ fpos = Len(fin) /\ ~Has(Unstamp(logdata), ESC)) =>
        FilterAgain(Unstamp(logdata)) = Unstamp(logdata)

\* C9 amended: whenever the filtered output holds neither ESC nor CR,
\* filtering it again returns it unchanged.
C9_IdempotentNoCR ==
    (pc = "filter" /\ fpos = Len(fin)
        /\ ~Has(Unstamp(logdata), ESC) /\ ~Has(Unstamp(logdata), CR)) =>
        FilterAgain(Unstamp(logdata)) = Unstamp(logdata)

C9_Witness ==
    /\ pc = "filter" /\ fpos = Len(fin) /\ Has(fin, ESC)
    /\ Unstamp(logdata) # <<>> /\ Len(Unstamp(logdata)) < Len(fin)
    /\ ~Has(Unstamp(logdata), ESC) /\ ~Has(Unstamp(logdata), CR)
    /\ FilterAgain(Unstamp(logdata)) = Unstamp(logdata)

\* where a date prefix starts in the log output
StampStarts(out) == {i \in 1..Len(out) : out[i] = TSCHAR /\ (i = 1 \/ out[i - 1] # TSCHAR)}
\* the lines of the input: one, and one more per '\n' that is not its last byte
Lines(x) == 1 + Cardinality({i \in 1..(Len(x) - 1) : x[i] = LF})

\* C10: over the calls at process start, the log gets one prefix of 24 date
\* characters and ": " per line of the input: one at the very first byte, one
\* right after each '\n', none elsewhere; "A\nB" gives "<ts>: A\n<ts>: B".
C10_OneStampPerLine ==
    (pc = "filter" /\ fpos = Len(fin) /\ fin # <<>>) =>
        /\ Cardinality(StampStarts(logdata)) = Lines(fin)
        /\ 1 \in StampStarts(logdata)
        /\ \A i \in StampStarts(logdata) :
              /\ i + Len(Stamp) - 1 <= Len(logdata)
              /\ SubSeq(logdata, i, i + Len(Stamp) - 1) = Stamp
              /\ i > 1 => logdata[i - 1] = LF
        /\ Len(SelectSeq(logdata, LAMBDA b : b = TSCHAR)) = 24 * Lines(fin)
        /\ fin = <<65, LF, 66>> => logdata = Stamp \o <<65, LF>> \o Stamp \o <<66>>

C10_Witness ==
    /\ pc = "filter" /\ fin = <<65, LF, 66>> /\ fpos = 3
    /\ logdata = Stamp \o <<65, LF>> \o Stamp \o <<66>>

\* ------------------------------------------------- claims on the driver, 2
\* unreadLength(): the todo main computes from the two cursors
unreadLength == Todo(inptr, outptr)

\* C11: in every reachable state both cursors lie inside the arena and the
\* unread length is at least 0 and at most the capacity, also after captures
\* that wrapped the write cursor and captures that ran over unread bytes.
C11_UnreadBounded ==
    /\ inptr \in 0..(RingSize - 1)
    /\ outptr \in 0..(RingSize - 1)
    /\ unreadLength >= 0
    /\ unreadLength <= RingSize

\* the write cursor has wrapped over bytes no drain ever took
C11_Witness ==
    /\ pc = "logopen" /\ "advance" \in trail /\ n > 0
    /\ fp = -1 /\ Len(ptyRead) > RingSize
    /\ inptr > 0 /\ unreadLength = inptr


StartupPcs == {"consolenames", "opencons", "findpty", "tioccons"}

\* nothing of the loop has happened: no pty read, no console write, no log
NeverRan ==
    /\ ptyRead = <<>> /\ handed = <<>> /\ logdata = <<>>
    /\ \A c \in DOMAIN consOut : consOut[c] = <<>>
    /\ fp = -1 /\ trail = {}
    /\ \A f \in Fds : fdt[f] # "log"

\* C12: main returns 1, from startup only and with nothing of the loop done,
\* when consolenames yields no console, when no console could be opened, when
\* findpty fails or when the TIOCCONS ioctl on the companion fails; the loop is
\* entered with at least one console open (and the pty pair open); every run
\* that has entered the loop, or passed its test, ends with return 0.
C12_State ==
    /\ exitcode \in {-1, 0, 1}
    /\ (pc = "done") <=> (exitcode # -1)
    /\ exitcode = 1 => NeverRan
    /\ pc \in StartupPcs => NeverRan

C12_Step ==
    /\ (pc = "consolenames" /\ pc' # pc /\ num_consoles' <= 0) =>
          (pc' = "done" /\ exitcode' = 1)
    /\ (pc = "opencons" /\ pc' # pc /\ \A c \in Consoles : cons[c] < 0) =>
          (pc' = "done" /\ exitcode' = 1)
    /\ (pc = "findpty" /\ pc' # pc /\ fdt' = fdt) => (pc' = "done" /\ exitcode' = 1)
    /\ (pc = "tioccons" /\ pc' # pc) =>
          (pc' = "while" \/ (pc' = "done" /\ exitcode' = 1))
    /\ (exitcode' = 1 /\ exitcode # 1) => pc \in StartupPcs
    /\ (pc' = "while" /\ ~InLoop) =>
          /\ pc = "tioccons"
          /\ consoles_left >= 1
          /\ \E c \in Consoles : cons[c] >= 0 /\ fdt[cons[c]] = "cons"
          /\ fdt[ptm] = "ptm" /\ fdt[pts] = "pts"
    /\ ((InLoop \/ pc = "shutdown") /\ pc' = "done") => exitcode' = 0

C12_ExitCodes == [](C12_State) /\ [][C12_Step]_vars

\* the redirection failed with consoles and the pty pair open
C12_Witness ==
    /\ pc = "done" /\ exitcode = 1
    /\ num_consoles = MaxConsoles /\ consoles_left >= 1
    /\ ptm >= 0 /\ fdt[ptm] = "ptm" /\ fdt[pts] = "pts"


\* C13: when main has returned 0 after a signal, consoles still live, with the
\* log FILE open, every
\* byte handed to fp has reached the log file, and with -s every such byte has
\* been forced to the disk, the bytes of a last writelog call that printed no
\* date included.
C13_ShutdownDurable ==
    (pc = "done" /\ exitcode = 0 /\ signalled /\ consoles_left >= 1 /\ fp # -1) =>
        /\ flushed = Len(logdata)
        /\ syncalot => synced = Len(logdata)


\* C14: in the log-open step of an iteration that holds no log FILE, the
\* rename to logfile~ happens exactly when the path exists and -r is set and is
\* followed by an fopen in append mode in the same step; with the path absent
\* and -c unset nothing is renamed or opened and fp stays NULL; the policy runs
\* in every iteration without a FILE (an fopen is tried whenever the path exists
\* or -c is set); once an fopen has succeeded fp is set from that step on and
\* the policy is not run again.
C14_Step ==
    /\ (pc = "logopen" /\ pc' # pc /\ fp = -1) =>
          /\ openlog'.renamed <=> (openlog'.exists /\ rotate)
          /\ openlog'.renamed => openlog'.opens >= 1
          /\ (~openlog'.exists /\ ~createlogfile) =>
                (~openlog'.renamed /\ openlog'.opens = 0 /\ fp' = -1 /\ fdt' = fdt)
          /\ (openlog'.exists \/ createlogfile) <=> (openlog'.opens >= 1)
          /\ fp' # -1 => (openlog'.opens >= 1 /\ fdt'[fp'] = "log")
    /\ (pc = "logopen" /\ pc' # pc /\ fp # -1) =>
          (openlog' = NoOpen /\ fdt' = fdt)
    /\ fp # -1 => fp' = fp
    /\ (fp = -1 /\ fp' # -1) => pc = "logopen"

C14_DeferredOpen == [][C14_Step]_vars

\* the existing file was renamed, the first fopen failed, the one under -c
\* succeeded
C14_Witness ==
    /\ pc = "drain" /\ rotate /\ createlogfile
    /\ openlog.exists /\ openlog.renamed /\ openlog.opens = 2
    /\ fp # -1 /\ fdt[fp] = "log"
    /\ "advance" \in trail


\* everything but the flag and the record of its delivery
mainvars == <<pc, exitcode, fdt, cons, num_consoles, consoles_left, considx, ptm, pts,
              ringbuf, inptr, outptr, n, m, p, fp, createlogfile, first_run, inside_esc,
              logdata, ptyRead, consOut, hupAt, newOut, trail, fin, fpos,
              syncalot, rotate, flushed, synced, openlog, handed>>

\* the order of the steps of main, whatever the flag holds
NextPcs(q) ==
    CASE q = "consolenames" -> {"opencons", "done"}
      [] q = "opencons" -> {"findpty", "done"}
      [] q = "findpty" -> {"tioccons", "done"}
      [] q = "tioccons" -> {"while", "done"}
      [] q = "while" -> {"select", "shutdown"}
      [] q = "select" -> {"read", "logopen"}
      [] q = "read" -> {"for", "logopen"}
      [] q = "for" -> {"write", "advance"}
      [] q = "write" -> {"for"}
      [] q = "advance" -> {"logopen"}
      [] q = "logopen" -> {"drain"}
      [] q = "drain" -> {"while"}
      [] q = "shutdown" -> {"done"}
      [] OTHER -> {}

\* C15: the handler changes nothing but the flag; the flag is read only by the
\* test of the while: a new iteration starts only with the flag clear, the loop
\* is left only from that test and only with the flag set; inside an iteration,
\* signal or not, the steps follow in their order, each at most once, the
\* consoles not counted out have the whole span before the cursor update, and
\* the log-open step and the drain are behind when the test is reached; after
\* the test has seen the flag nothing is read, written or drained any more, and
\* a signalled driver ends with return 0.
C15_Handler ==
    (signalled' # signalled \/ (got_signal' = SIGTERM /\ got_signal # SIGTERM)) =>
        (got_signal' = SIGTERM /\ signalled' /\ UNCHANGED mainvars)

C15_Flow ==
    /\ pc' # pc => pc' \in NextPcs(pc)
    /\ (pc = "while" /\ pc' = "select") => got_signal = 0
    /\ (pc = "while" /\ pc' = "shutdown") => got_signal # 0
    /\ got_signal # 0 => got_signal' # 0
    /\ pc \in {"shutdown", "done"} =>
          UNCHANGED <<ptyRead, consOut, handed, ringbuf, inptr, outptr, fp>>

C15_Iteration ==
    /\ pc \in {"select", "read", "for", "write", "advance"} => trail = {}
    /\ pc = "logopen" => trail \subseteq {"advance"}
    /\ pc = "drain" => ("logopen" \in trail /\ "drain" \notin trail)
    /\ (pc = "while" /\ trail # {}) => {"logopen", "drain"} \subseteq trail
    /\ (pc = "shutdown" /\ trail # {}) => {"logopen", "drain"} \subseteq trail
    /\ pc \in {"advance", "logopen", "drain", "while", "shutdown"} =>
          \A c \in Consoles : cons[c] >= 0 => consOut[c] = ptyRead

C15_SignalPolling ==
    /\ [][C15_Handler /\ C15_Flow]_vars
    /\ [](C15_Iteration)
    /\ ((signalled /\ InLoop) ~> (pc = "done" /\ exitcode = 0))

\* SIGTERM arrived after the test of the while, no console lost: the span is on
\* the console, the cursor update and the log-open step are done, the drain is
\* next
C15_Witness ==
    /\ pc = "drain" /\ got_signal = SIGTERM /\ signalled
    /\ consoles_left >= 1 /\ n >= 2
    /\ trail = {"advance", "logopen"}
    /\ \E c \in Consoles : cons[c] >= 0 /\ consOut[c] = ptyRead


\* ------------------------------------------------ the table of spec 4.2
\* the states of the filter, as inside_esc numbers them
Normal == 0
EscapeStart == 1
EscapeParams == 2

TableStep(st, b) ==
    IF st = Normal
    THEN IF b = 27 THEN [drop |-> TRUE, next |-> EscapeStart]
         ELSE IF b = 13 THEN [drop |-> TRUE, next |-> Normal]
         ELSE [drop |-> FALSE, next |-> Normal]
    ELSE IF st = EscapeStart
    THEN IF b = 91 THEN [drop |-> TRUE, next |-> EscapeParams]
         ELSE IF b \in 64..95 THEN [drop |-> TRUE, next |-> Normal]
         ELSE [drop |-> FALSE, next |-> Normal]
    ELSE IF b \in 48..57 \/ b = 59 \/ b \in 32..47
         THEN [drop |-> TRUE, next |-> EscapeParams]
         ELSE IF b \in 64..126 THEN [drop |-> TRUE, next |-> Normal]
         ELSE [drop |-> FALSE, next |-> EscapeParams]

\* the table run over a sequence from state Normal
RECURSIVE TableRun(_, _, _)
TableRun(x, st, out) ==
    IF x = <<>> THEN [out |-> out, state |-> st]
    ELSE LET r == TableStep(st, Head(x))
         IN  TableRun(Tail(x), r.next, IF r.drop THEN out ELSE Append(out, Head(x)))

\* C16: for each of the three states and each byte 0..255 met in it, the
\* state the log writer is left in and its choice to drop or pass the byte are
\* those of the table, and the state is carried unchanged between two calls:
\* however the bytes are cut into calls, what has been written and the state
\* after each call are the table's run over the bytes consumed so far.
C16_TransitionTable ==
    pc = "filter" =>
        LET r == TableRun(SubSeq(fin, 1, fpos), Normal, <<>>)
        IN  /\ Unstamp(logdata) = r.out
            /\ inside_esc = r.state

\* a byte outside the parameter and final ranges, met in EscapeParams:
\* passed, state kept
C16_Witness ==
    /\ pc = "filter" /\ fin = <<ESC, 91, 200>> /\ fpos = 3
    /\ Len(logdata) = Len(Stamp) + 1
    /\ Unstamp(logdata) = <<200>>
    /\ inside_esc = EscapeParams


\* the log the raw bytes x give when the date goes in front of the first byte
\* and of every byte whose predecessor in x is '\n', dropped or not
RECURSIVE StampedLog(_, _, _, _)
StampedLog(x, i, st, out) ==
    IF i > Len(x) THEN out
    ELSE LET stamp == i = 1 \/ x[i - 1] = LF
             r == TableStep(st, x[i])
         IN  StampedLog(x, i + 1, r.next,
                        out \o (IF stamp THEN Stamp ELSE <<>>)
                            \o (IF r.drop THEN <<>> ELSE <<x[i]>>))

\* C17: whatever the drains, the log holds a date in front of the first byte
\* handed to the log writer and, of the later bytes, in front of exactly those
\* whose predecessor in the raw stream is '\n': also for a byte drained from
\* the arena start, and for a byte the filter drops.
C17_StampPlacement ==
    logdata = StampedLog(handed, 1, Normal, <<>>)


\* the console targets whose descriptor is an open console handle
ValidCons == {c \in Consoles : cons[c] >= 0 /\ fdt[cons[c]] = "cons"}
\* the targets the open loop has not tried yet
Pending == IF pc = "opencons" THEN num_consoles - considx ELSE 0

\* C18 as stated: from startup to shutdown consoles_left equals the number of
\* console targets whose handle is valid.
C18_LiveCountAlways ==
    pc # "done" => consoles_left = Cardinality(ValidCons)

\* C18 amended: from the end of the open loop to shutdown consoles_left equals
\* the number of targets whose handle is valid, and inside the open loop that
\* number plus the number of targets not tried yet; it never is negative; it
\* goes down by exactly one in the step that makes a target dead (failed first
\* open, write failure that is no hang-up, failed reopen) and in no other step,
\* a successful reopen included.
C18_State ==
    pc # "done" =>
        /\ consoles_left = Cardinality(ValidCons) + Pending
        /\ consoles_left >= 0
        /\ \A c \in Consoles : cons[c] >= 0 => fdt[cons[c]] = "cons"

C18_Step ==
    /\ (pc # "consolenames" /\ consoles_left' # consoles_left) =>
          /\ consoles_left' = consoles_left - 1
          /\ pc \in {"opencons", "write"}
          /\ cons'[considx] < 0
          /\ \A c \in Consoles : c # considx => cons'[c] = cons[c]
    /\ (pc = "write" /\ cons'[considx] >= 0) => consoles_left' = consoles_left
    /\ \A c \in Consoles :
          (InLoop /\ cons[c] >= 0 /\ cons'[c] < 0) => consoles_left' = consoles_left - 1
    /\ (pc = "opencons" /\ considx' # considx /\ cons'[considx] < 0) =>
          consoles_left' = consoles_left - 1

C18_LiveCount == [](C18_State) /\ [][C18_Step]_vars

\* one target lost to a failed first open or a failed write, one live that
\* has gone through a hang-up and a reopen
C18_Witness ==
    /\ pc = "write" /\ hupAt >= 0 /\ Len(newOut) > 0
    /\ num_consoles = 2 /\ consoles_left = 1
    /\ Cardinality(ValidCons) = 1


\* if (inptr - n < outptr && inptr > outptr), on the cursors before inptr += n
Overrun(in, out, cnt) == in < out /\ in + cnt > out

C20_Running ==
    InLoop => (fdt[pts] = "pts" /\ fdt[ptm] = "ptm")

C20_Step ==
    /\ (pc = "write" /\ fdt' # fdt) =>
          \A f \in Fds : (f # cons[considx] /\ f # cons'[considx]) => fdt'[f] = fdt[f]
    /\ (pts \in Fds /\ fdt[pts] = "pts" /\ fdt'[pts] # "pts") => pc = "shutdown"

C20_HandleIsolation == [](C20_Running) /\ [][C20_Step]_vars

====
